---- MODULE Spec2Model ----
(***************************************************************************)
(* Free Sleep Pod integration: the device facade (Pod / Side), the         *)
(* snapshot aggregator Pod.async_fetch_state, the polling coordinator that *)
(* caches its result, and the entity controls that write to the device.    *)
(***************************************************************************)
EXTENDS Integers, Sequences, FiniteSets, TLC

\* ------------------------------------------------------------------ bounds
MaxPolls == 2      \* polls started in one behaviour
MaxOps == 1        \* control invocations in one behaviour
MaxLed == 1        \* largest whole LED brightness the model enumerates
MaxDoc == 2        \* distinct per-side documents get_side_data is tried on
MaxSetups == 3     \* calls of async_setup_entry in one behaviour
MaxSubmits == 2    \* submissions of the config flow's form in one behaviour

\* ------------------------------------------------------- program constants
EIGHT_SLEEP_MIN_TEMPERATURE_F == 55
EIGHT_SLEEP_MAX_TEMPERATURE_F == 110

Temperatures == {EIGHT_SLEEP_MIN_TEMPERATURE_F, EIGHT_SLEEP_MAX_TEMPERATURE_F}

DEVICE_STATUS_ENDPOINT == "/api/deviceStatus"
SETTINGS_ENDPOINT == "/api/settings"
JOBS_ENDPOINT == "/api/jobs"

\* PodSide = Literal['left', 'right']
PodSide == {"left", "right"}

\* The four awaitables of Pod.async_fetch_state, in the order of the list.
Fetches == {"status", "settings", "vitals_left", "vitals_right"}

\* The two ways the coordinator starts a poll: its interval timer and a
\* refresh request.
Triggers == {"interval", "request"}

VARIABLES
  dev,         \* the device: what a status GET answers
  data,        \* coordinator.data, the cached snapshot
  polls,       \* per trigger, the invocation of Pod.async_fetch_state
  nPolls,      \* polls started so far (also the id of the latest poll)
  refreshReq,  \* a refresh was requested and not yet served
  inv,         \* the current (or last) control invocation
  nOps,        \* control invocations so far
  ledSet,      \* the value last given to the LED number entity and accepted
  sd,          \* one evaluation of Side.get_side_data
  bs,          \* the binary sensor platform: its snapshot and entity states
  hassData,    \* hass.data[DOMAIN]: entry_id -> (pod, coordinator)
  entries,     \* per config entry, where its setup or unload stands
  nSetups,     \* calls of async_setup_entry so far
  flow,        \* the config flow: the user step and its result
  platforms,   \* per entity platform, the entities it has added for the pod
  svc          \* the service call in progress, and what it has done

vars ==
  <<dev, data, polls, nPolls, refreshReq, inv, nOps, ledSet, sd,
    bs, hassData, entries, nSetups, flow, platforms, svc>>

\* The state of the platform glue, which the device facade never touches.
hostVars == <<bs, hassData, entries, nSetups, flow, platforms, svc>>

\* ------------------------------------------------------------------ floats
\* A Python float in steps of one half: int + 0.5 * half.
Float(i, h) == [int |-> i, half |-> h]

Floats == {Float(i, h) : i \in 0..MaxLed, h \in 0..1}

\* int(value) of the set_value lambda: truncation toward zero.
ToInt(v) == v.int

\* Python's n == v for an int n and a float v.
IntEqFloat(n, v) == v.int = n /\ v.half = 0

\* --------------------------------------------------------- fetch results
NoSettings == [ledBrightness |-> 0]

Pending == [st |-> "pending", poll |-> 0, src |-> "", settings |-> NoSettings]

Failed == [st |-> "failed", poll |-> 0, src |-> "", settings |-> NoSettings]

NoResult == [st |-> "none", poll |-> 0, src |-> "", settings |-> NoSettings]

\* The document a GET of resource f answers during poll p: the device's
\* status carries settings.ledBrightness; every document is stamped with the
\* poll and the request that fetched it.
Response(p, f) ==
  [st |-> "ok", poll |-> p, src |-> f,
   settings |-> IF f = "status" THEN [ledBrightness |-> dev.led] ELSE NoSettings]

NoSnapshot ==
  [present |-> FALSE, status |-> NoResult, settings |-> NoResult,
   vitals |-> [left |-> NoResult, right |-> NoResult]]

\* No poll yet.  sent counts, per resource, the requests the poll has issued.
IdlePoll ==
  [st |-> "idle", id |-> 0, res |-> [f \in Fetches |-> NoResult],
   ret |-> NoSnapshot, fresh |-> FALSE, sent |-> [f \in Fetches |-> 0]]

\* gather with return_exceptions=True: exceptions are returned as results.
AwaitGather_ReturnExceptions(res) ==
  IF \A f \in Fetches : res[f].st \in {"ok", "failed"} THEN "return"
  ELSE "wait"

\* await gather(*requests) with the default return_exceptions=False: the
\* first exception of an awaitable is raised in the awaiter at once; the list
\* of results is returned once every awaitable has one.
AwaitGather(res) ==
  IF \E f \in Fetches : res[f].st = "failed" THEN "raise"
  ELSE IF \A f \in Fetches : res[f].st = "ok" THEN "return"
  ELSE "wait"

\* A merge that refreshes the status only and keeps the cached rest.
MergeState_KeepCached(res) ==
  [present |-> TRUE,
   status |-> res["status"],
   settings |-> IF data.present THEN data.settings ELSE res["settings"],
   vitals |-> IF data.present THEN data.vitals
              ELSE [left |-> res["vitals_left"], right |-> res["vitals_right"]]]

\* A merge that unpacks the two vitals results in the wrong order.
MergeState_SwappedSides(res) ==
  [present |-> TRUE,
   status |-> res["status"],
   settings |-> res["settings"],
   vitals |-> [left |-> res["vitals_right"], right |-> res["vitals_left"]]]

\* The dictionary Pod.async_fetch_state returns from the gathered results,
\* unpacked in the order of the request list.
MergeState(res) ==
  [present |-> TRUE,
   status |-> res["status"],
   settings |-> res["settings"],
   vitals |-> [left |-> res["vitals_left"], right |-> res["vitals_right"]]]

\* ----------------------------------------------------------- JSON values
JBool(b) == [t |-> "bool", b |-> b, n |-> 0, s |-> ""]

JNum(n) == [t |-> "number", b |-> FALSE, n |-> n, s |-> ""]

\* A JSON array of one string.
JList(s) == [t |-> "array", b |-> FALSE, n |-> 0, s |-> s]

JStr(s) == [t |-> "string", b |-> FALSE, n |-> 0, s |-> s]

\* bool(v) of Python for a decoded JSON value: False, 0 and "" are falsy,
\* every other value (any non-empty string or list) is truthy.
Truthy(v) ==
  CASE v.t = "bool" -> v.b
    [] v.t = "number" -> v.n # 0
    [] v.t = "string" -> v.s # ""
    [] v.t = "array" -> TRUE

\* ------------------------------------------------------------- the client
\* One call of a FreeSleepAPI method.
ApiCall(fn, side, arg) == [fn |-> fn, side |-> side, arg |-> arg]

\* The HTTP request a FreeSleepAPI mutation method sends: a POST whose JSON
\* body sets the one field at the path `keys`, or is a bare list.
HttpPost(path, keys, val) ==
  [method |-> "POST", path |-> path, keys |-> keys, val |-> val]

ApiRequest(c) ==
  CASE c.fn = "set_led_brightness" ->
         HttpPost(DEVICE_STATUS_ENDPOINT, <<"settings", "ledBrightness">>, c.arg)
    [] c.fn = "set_prime_daily" ->
         HttpPost(SETTINGS_ENDPOINT, <<"primePodDaily", "enabled">>, c.arg)
    [] c.fn = "set_side_active" ->
         HttpPost(DEVICE_STATUS_ENDPOINT, <<c.side, "isOn">>, c.arg)
    [] c.fn = "set_side_target_temperature" ->
         HttpPost(DEVICE_STATUS_ENDPOINT, <<c.side, "targetTemperatureF">>, c.arg)
    [] c.fn = "prime" ->
         HttpPost(DEVICE_STATUS_ENDPOINT, <<"isPriming">>, JBool(TRUE))
    [] c.fn = "reboot" ->
         HttpPost(JOBS_ENDPOINT, <<>>, JList("reboot"))

\* ------------------------------------------------- Pod and Side mutations
\* Each is the sequence of client calls the method awaits.
PodSetPrimeDaily(enabled) == <<ApiCall("set_prime_daily", "none", JBool(enabled))>>

PodSetLedBrightness(brightness) ==
  <<ApiCall("set_led_brightness", "none", JNum(brightness))>>

\* A set_active that switches both sides.
SideSetActive_BothSides(type, active) ==
  <<ApiCall("set_side_active", "left", JBool(active)),
    ApiCall("set_side_active", "right", JBool(active))>>

SideSetActive(type, active) == <<ApiCall("set_side_active", type, JBool(active))>>

SideSetTargetTemperature(type, temperature_f) ==
  <<ApiCall("set_side_target_temperature", type, JNum(temperature_f))>>

PodPrime == <<ApiCall("prime", "none", JBool(TRUE))>>

PodReboot == <<ApiCall("reboot", "none", JList("reboot"))>>

\* POD_BUTTONS: the handle of the button with the given key.
ButtonKeys == {"prime", "reboot"}

\* A button table with the two handles exchanged.
ButtonHandle_Exchanged(key) == IF key = "prime" THEN PodReboot ELSE PodPrime

\* A reboot handle that primes before it reboots.
ButtonHandle_PrimeFirst(key) ==
  IF key = "prime" THEN PodPrime ELSE PodPrime \o PodReboot

ButtonHandle(key) == IF key = "prime" THEN PodPrime ELSE PodReboot

\* A set_value that rounds half up instead of truncating.
NumberSetValueCalls_Round(value) == PodSetLedBrightness(value.int + value.half)

\* POD_SENSORS of the number platform: LED Brightness.
NumberSetValueCalls(value) == PodSetLedBrightness(ToInt(value))

NumberGetValue(d) == d.status.settings.ledBrightness

\* The HTTP requests of the current control invocation.
Posts == [i \in 1..Len(inv.calls) |-> ApiRequest(inv.calls[i])]

\* ---------------------------------------------------- Side.get_side_data
\* The values Side.type takes: the two sides the Pod constructs, and a key
\* no snapshot carries.
SideTypes == PodSide \cup {"middle"}

\* A Python dict with side keys: a function from the keys it has.
SideDicts == UNION {[keys -> 1..MaxDoc] : keys \in SUBSET PodSide}

PodStates == [status : SideDicts, settings : SideDicts, vitals : SideDicts]

\* d[k] of a Python dict: the value, or KeyError when k is not a key.
HasKey(d, k) == k \in DOMAIN d

\* A get_side_data that takes the vitals of the left side for every Side.
GetSideData_LeftVitals(type, d) ==
  IF HasKey(d.status, type) /\ HasKey(d.settings, type) /\ HasKey(d.vitals, "left")
  THEN [err |-> "none", status |-> d.status[type],
        settings |-> d.settings[type], vitals |-> d.vitals["left"]]
  ELSE [err |-> "KeyError", status |-> 0, settings |-> 0, vitals |-> 0]

\* A get_side_data that looks up with dict.get and a default.
GetSideData_Default(type, d) ==
  [err |-> "none",
   status |-> IF HasKey(d.status, type) THEN d.status[type] ELSE 0,
   settings |-> IF HasKey(d.settings, type) THEN d.settings[type] ELSE 0,
   vitals |-> IF HasKey(d.vitals, type) THEN d.vitals[type] ELSE 0]

\* Side.get_side_data(data) of a Side with the given type.
GetSideData(type, d) ==
  IF HasKey(d.status, type) /\ HasKey(d.settings, type) /\ HasKey(d.vitals, type)
  THEN [err |-> "none", status |-> d.status[type],
        settings |-> d.settings[type], vitals |-> d.vitals[type]]
  ELSE [err |-> "KeyError", status |-> 0, settings |-> 0, vitals |-> 0]

\* ------------------------------------------------- binary sensor platform
\* The status document of the device: the two fields the pod's binary
\* sensors read, the settings the number entity reads, and a document per
\* side.
StatusDoc(isPriming, waterLevel) ==
  [isPriming |-> JBool(isPriming), waterLevel |-> waterLevel,
   settings |-> [ledBrightness |-> 0], left |-> 1, right |-> 2]

\* What status.waterLevel has been seen to hold: the device's strings and
\* JSON booleans.
WaterLevels == {JStr("true"), JStr("false"), JBool(TRUE), JBool(FALSE)}

\* A snapshot as Pod.async_fetch_state builds it: status, settings, vitals.
PodStateDoc(isPriming, waterLevel) ==
  [status |-> StatusDoc(isPriming, waterLevel),
   settings |-> [left |-> 1, right |-> 2],
   vitals |-> [left |-> 1, right |-> 2]]

\* A snapshot that also carries presence data for both sides.
PresenceStateDoc(isPriming, waterLevel, left, right) ==
  [status |-> StatusDoc(isPriming, waterLevel),
   settings |-> [left |-> 1, right |-> 2],
   vitals |-> [left |-> 1, right |-> 2],
   presence |-> [left |-> [present |-> JBool(left)],
                 right |-> [present |-> JBool(right)]]]

Snapshots ==
  {PodStateDoc(p, w) : p \in BOOLEAN, w \in WaterLevels}
    \cup {PresenceStateDoc(p, w, l, r) :
            p \in BOOLEAN, w \in WaterLevels, l \in BOOLEAN, r \in BOOLEAN}

\* The outcome of evaluating a get_value lambda: a value, or KeyError.
Value(v) == [err |-> "none", v |-> v]

KeyError == [err |-> "KeyError", v |-> JBool(FALSE)]

\* A Priming sensor that reads the water level field.
PrimingGetValue_WaterLevel(d) == Value(d["status"]["waterLevel"])

\* POD_BINARY_SENSORS, Priming: data['status']['isPriming']
PrimingGetValue(d) == Value(d["status"]["isPriming"])

\* A Water Level sensor without the negation.
WaterLevelGetValue_NoNot(d) == Value(d["status"]["waterLevel"])

\* A Water Level sensor that also reports a problem while the pod primes.
WaterLevelGetValue_WhilePriming(d) ==
  Value(JBool(~Truthy(d["status"]["waterLevel"])
                \/ Truthy(d["status"]["isPriming"])))

\* POD_BINARY_SENSORS, Water Level: not data['status']['waterLevel']
WaterLevelGetValue(d) == Value(JBool(~Truthy(d["status"]["waterLevel"])))

\* POD_SIDE_BINARY_SENSORS, Presence: data['presence']['present'], of the
\* dictionary Side.get_side_data returned.
PresenceGetValue(sideData) ==
  IF "presence" \in DOMAIN sideData
  THEN IF "present" \in DOMAIN sideData["presence"]
       THEN Value(sideData["presence"]["present"])
       ELSE KeyError
  ELSE KeyError

\* FreeSleepBinarySensor.is_on of the pod sensor with the given key
PodBinarySensorIsOn(key, d) ==
  IF key = "priming" THEN PrimingGetValue(d) ELSE WaterLevelGetValue(d)

\* FreeSleepSideBinarySensor.is_on of the Presence sensor of the given Side
SideBinarySensorIsOn(type, d) ==
  LET sideData == GetSideData(type, d)
  IN  IF sideData.err # "none" THEN KeyError ELSE PresenceGetValue(sideData)

\* The binary sensor entities of one pod, by the key and the side of their
\* unique ids.
PodBinarySensors == {"priming", "water_level"}

SideBinarySensors == {"left_bed_presence", "right_bed_presence"}

BinarySensors == PodBinarySensors \cup SideBinarySensors

IsOn(e, d) ==
  CASE e \in PodBinarySensors -> PodBinarySensorIsOn(e, d)
    [] e = "left_bed_presence" -> SideBinarySensorIsOn("left", d)
    [] e = "right_bed_presence" -> SideBinarySensorIsOn("right", d)

\* The state the host writes for a binary sensor from its is_on: on or off by
\* the truth of the value; when is_on raised, no state is written and the
\* entity keeps what it had.
WriteState(old, r) ==
  IF r.err # "none" THEN old
  ELSE IF Truthy(r.v) THEN "on" ELSE "off"

\* The platform after the coordinator has published snapshot d: every entity
\* re-reads its value from d.
Publish(old, d, updated) ==
  [data |-> d,
   prev |-> old.data,
   updated |-> updated,
   state |-> [e \in BinarySensors |-> WriteState(old.state[e], IsOn(e, d))],
   raised |-> [e \in BinarySensors |-> IsOn(e, d).err # "none"],
   led |-> NumberGetValue(d)]

\* No platform set up.
NoBs ==
  [data |-> PodStateDoc(FALSE, JStr("true")),
   prev |-> PodStateDoc(FALSE, JStr("true")),
   updated |-> FALSE,
   state |-> [e \in BinarySensors |-> "none"],
   raised |-> [e \in BinarySensors |-> FALSE],
   led |-> 0]

\* ------------------------------------------------------- config entries
\* The ids of the config entries the host sets up and unloads.
Entries == {"e1", "e2"}

\* A config entry the host has not set up.
NoEntry ==
  [pc |-> "idle", state |-> "not_loaded", result |-> "none", loaded |-> FALSE,
   pair |-> 0]

\* hass.data[DOMAIN] with nothing in it.
NoPairs == [e \in {} |-> 0]

\* The (pod, coordinator) tuple async_setup_entry builds in its n-th call.
Pair(n) == [pod |-> n, coordinator |-> n]

\* hass.data[DOMAIN][entry_id] = pair
DictSet(d, k, v) == [x \in DOMAIN d \cup {k} |-> IF x = k THEN v ELSE d[x]]

\* hass.data[DOMAIN].pop(entry_id)
DictPop(d, k) == [x \in DOMAIN d \ {k} |-> d[x]]

\* ------------------------------------------------------------ config flow
\* A Python str as the sequence of its characters.
HTTP == <<"h", "t", "t", "p", ":", "/", "/">>

HTTPS == <<"h", "t", "t", "p", "s", ":", "/", "/">>

\* The hosts a user submits: with either scheme, without one, with a scheme
\* cut short, in upper case, with another scheme, empty, and with the scheme
\* not at the start.
Hosts ==
  {HTTP \o <<"p">>, HTTPS \o <<"p">>, HTTP, <<"p">>,
   <<"h", "t", "t", "p", ":", "/", "p">>,
   <<"h", "t", "t", "p", "s", ":", "/", "p">>,
   <<"H", "T", "T", "P", ":", "/", "/", "p">>,
   <<"f", "t", "p", ":", "/", "/", "p">>,
   <<>>,
   <<" ">> \o HTTP \o <<"p">>}

\* str.startswith(prefix)
StartsWith(str, prefix) ==
  /\ Len(str) >= Len(prefix)
  /\ SubSeq(str, 1, Len(prefix)) = prefix

\* A scheme check that looks for '://' anywhere in the url.
ValidUrl_AnyScheme(url) ==
  \E i \in 1..Len(url) : StartsWith(SubSeq(url, i, Len(url)), <<":", "/", "/">>)

\* validate_setup: url.startswith(('http://', 'https://'))
ValidUrl(url) == StartsWith(url, HTTP) \/ StartsWith(url, HTTPS)

\* The hubVersion of a device status.
HubVersions == {"Pod 3", "Pod 4"}

\* What the device-status fetch of validate_connection can come to: a status
\* with a hubVersion, a status without it, and a transport error.
Connections == HubVersions \cup {"no hubVersion", "error"}

\* A validation that reads the hubVersion with a default.
ValidateConnection_Get(c) ==
  IF c = "error"
  THEN [raised |-> "cannot_connect", name |-> ""]
  ELSE [raised |-> "", name |-> IF c \in HubVersions THEN c ELSE ""]

\* validate_connection: status['hubVersion'] of the fetched status; whatever
\* the fetch or the subscript raises becomes ValueError('cannot_connect').
ValidateConnection(c) ==
  IF c \in HubVersions
  THEN [raised |-> "", name |-> c]
  ELSE [raised |-> "cannot_connect", name |-> ""]

\* HOST_SCHEMA: a host, and an update interval between 5 and 300 that
\* defaults to 30.
UserInput(host, update_interval) ==
  [host |-> host, update_interval |-> update_interval]

UserInputs == {UserInput(h, i) : h \in Hosts, i \in {5, 30, 300}}

NoFlowEntry == [created |-> FALSE, title |-> "", data |-> UserInput(<<>>, 30)]

\* The flow after async_step_user(None): the empty form.
NoFlow ==
  [pc |-> "form", input |-> UserInput(<<>>, 30), errors |-> "", attempts |-> 0,
   submits |-> 0, entry |-> NoFlowEntry, conn |-> "none"]

\* ------------------------------------------------------ entity unique ids
\* The entity platforms and the keys of their descriptions: for the pod
\* (POD_BINARY_SENSORS, POD_BUTTONS, POD_SENSORS of number and of sensor) and
\* for each side (POD_SIDE_BINARY_SENSORS, POD_SIDE_SENSORS).
Platforms == {"binary_sensor", "button", "number", "sensor"}

PodKeys(platform) ==
  CASE platform = "binary_sensor" -> <<"priming", "water_level">>
    [] platform = "button" -> <<"prime", "reboot">>
    [] platform = "number" -> <<"led_brightness">>
    [] platform = "sensor" -> <<"version", "wifi_strength">>

SideKeys(platform) ==
  CASE platform = "binary_sensor" -> <<"bed_presence">>
    [] platform = "sensor" -> <<"heart_rate", "respiration_rate", "hrv">>
    [] OTHER -> <<>>

\* Pod.sides, in the order Pod.__init__ builds them.
PodSides == <<"left", "right">>

\* Pod.id is the id of the config entry: the entries of the registry, the
\* entry of the tests, and an id that ends like a side's.
PodIds == Entries \cup {"test", "e1_left"}

\* A Side whose id is its pod's.
SideId_PodId(podId, side) == podId

\* Side.id = f'{pod.id}_{side}'
SideId(podId, side) == podId \o "_" \o side

\* _attr_unique_id = f'{pod.id}_{description.key}' of a pod entity and
\* f'{side.id}_{description.key}' of a side entity
UniqueId(id, key) == id \o "_" \o key

\* An entity as a platform adds it.
Entity(uid, side, key) == [uid |-> uid, side |-> side, key |-> key]

\* The entities of one async_add_entities call of a platform's
\* async_setup_entry: call 1 adds the pod's, calls 2 and 3 those of the
\* sides in the order of pod.sides.
AddedEntities(platform, podId, call) ==
  IF call = 1
  THEN [i \in 1..Len(PodKeys(platform)) |->
          Entity(UniqueId(podId, PodKeys(platform)[i]), "none",
                 PodKeys(platform)[i])]
  ELSE [i \in 1..Len(SideKeys(platform)) |->
          Entity(UniqueId(SideId(podId, PodSides[call - 1]),
                          SideKeys(platform)[i]),
                 PodSides[call - 1], SideKeys(platform)[i])]

\* The number of async_add_entities calls of a platform's setup.
AddCalls(platform) == IF Len(SideKeys(platform)) = 0 THEN 1 ELSE 1 + Len(PodSides)

\* No platform has been set up for the pod.
NoPlatforms ==
  [pod |-> "test",
   calls |-> [p \in Platforms |-> 0],
   added |-> [p \in Platforms |-> <<>>]]

\* ---------------------------------------------------------------- services
MaxSides == 2

\* Pod.manufacturer
MANUFACTURER == "Eight Sleep"

\* The days of the week, the default of 'day_of_week'.
DAYS_OF_WEEK ==
  <<"sunday", "monday", "tuesday", "wednesday", "thursday", "friday",
    "saturday">>

\* Pod.device_info['identifiers'] and Side.device_info['identifiers']
PodIdentifiers(podId) == {<<MANUFACTURER, podId>>}
SideIdentifiers(podId, side) == {<<MANUFACTURER, SideId(podId, side)>>}

\* A device of the host's device registry.
Device(identifiers) == [found |-> TRUE, identifiers |-> identifiers]

\* The device registry: the devices of two pods and of their sides, which
\* outlive the setup of their entries, a device of another integration, and a
\* device that carries the identifiers of a pod and of something else.
DeviceRegistry ==
  [id \in {"d_e1", "d_e2", "d_e1_left", "d_e1_right", "d_e2_left",
           "d_e2_right", "d_other", "d_merged"} |->
     CASE id = "d_e1" -> Device(PodIdentifiers("e1"))
       [] id = "d_e2" -> Device(PodIdentifiers("e2"))
       [] id = "d_e1_left" -> Device(SideIdentifiers("e1", "left"))
       [] id = "d_e1_right" -> Device(SideIdentifiers("e1", "right"))
       [] id = "d_e2_left" -> Device(SideIdentifiers("e2", "left"))
       [] id = "d_e2_right" -> Device(SideIdentifiers("e2", "right"))
       [] id = "d_other" -> Device({<<"acme", "e1">>})
       [] id = "d_merged" -> Device(PodIdentifiers("e1") \cup {<<"acme", "e1">>})]

\* The identifiers a service call may name; d_ghost is in no registry.
PodDeviceIds == {"d_e1", "d_e2", "d_e1_left", "d_other", "d_merged", "d_ghost"}
SideDeviceIds == {"d_e1_left", "d_e1_right", "d_e2_left", "d_e1", "d_ghost"}

\* registry.async_get(device_id): the device, or None
None == [found |-> FALSE, identifiers |-> {}]
AsyncGet(deviceId) ==
  IF deviceId \in DOMAIN DeviceRegistry THEN DeviceRegistry[deviceId] ELSE None

\* A comparison that takes a shared identifier for a match.
IdentifiersMatch_Overlap(identifiers, device) ==
  identifiers \cap device.identifiers # {}

\* pod_instance.device_info.get('identifiers') == pod.identifiers, and the
\* same comparison for a side
IdentifiersMatch(identifiers, device) == identifiers = device.identifiers

\* The pods of hass.data[DOMAIN].values() that the execute service runs the
\* command on for a resolved device.
ExecutePods(registered, device) ==
  {e \in DOMAIN registered : IdentifiersMatch(PodIdentifiers(e), device)}

\* The sides of the pods of hass.data[DOMAIN].values() that the set-schedule
\* service calls for a resolved device, as <<pod id, side>>.
ScheduleSides(registered, device) ==
  {ps \in (DOMAIN registered) \X PodSide :
     IdentifiersMatch(SideIdentifiers(ps[1], ps[2]), device)}

\* A value of the service data that is one string, or a list of strings.
Str(v) == [kind |-> "str", s |-> v, l |-> <<>>]
List(v) == [kind |-> "list", s |-> "", l |-> v]

\* A conversion that leaves one string as it came.
AsList_NoWrap(x) == x.l

\* if isinstance(x, str): x = [x]
AsList(x) == IF x.kind = "str" THEN <<x.s>> ELSE x.l

\* The 'side' of a set-schedule call: one identifier, or a list of at most
\* MaxSides identifiers.
RECURSIVE Lists(_, _)
Lists(S, n) ==
  IF n = 0 THEN {<<>>}
  ELSE Lists(S, n - 1) \cup
         {Append(l, x) : l \in {m \in Lists(S, n - 1) : Len(m) = n - 1}, x \in S}

SideInputs ==
  {Str(d) : d \in SideDeviceIds} \cup {List(l) : l \in Lists(SideDeviceIds, MaxSides)}

\* The 'day_of_week' of a set-schedule call: omitted, one day, or a list.
Omitted == [kind |-> "omitted", s |-> "", l |-> <<>>]
DayInputs == {Omitted, Str("monday"), List(<<"monday">>), List(<<"monday", "friday">>)}

\* _call.data.get('day_of_week', DAYS_OF_WEEK)
GetDayOfWeek(day_of_week) ==
  IF day_of_week = Omitted THEN List(DAYS_OF_WEEK) ELSE day_of_week

\* A schedule: the temperature of its one phase, in the unit of the host.
Units == {"C", "F"}
Schedules == {[temperature |-> 20], [temperature |-> 25]}

\* schedule_to_fahrenheit(unit, schedule)
ScheduleToFahrenheit(unit, schedule) ==
  IF unit = "C"
  THEN [temperature |-> (schedule.temperature * 9) \div 5 + 32]
  ELSE schedule

\* One set_schedule call on a side, and one execute_command call on a pod.
ScheduleCall(pod, side, days_of_week, schedule) ==
  [pod |-> pod, side |-> side, days_of_week |-> days_of_week, schedule |-> schedule]

\* No service call has been made.
NoSvc ==
  [op |-> "none", pc |-> "idle", result |-> "none",
   hasDomain |-> FALSE,
   pod_id |-> "none", return_response |-> FALSE, pending |-> {},
   executed |-> <<>>,
   side |-> List(<<>>), day_of_week |-> Omitted, unit |-> "F",
   input |-> [temperature |-> 0],
   side_ids |-> <<>>, days_of_week |-> <<>>, schedule |-> [temperature |-> 0],
   i |-> 0, calls |-> <<>>]

\* ------------------------------------------------------------------- Init
\* No control invoked yet.  resp is how the awaited client call ended.
NoInv ==
  [pc |-> "idle", op |-> "none", side |-> "none", arg |-> JNum(0),
   value |-> Float(0, 0), calls |-> <<>>, resp |-> "none", refresh |-> FALSE]

NoSideCall == [pc |-> "none"]

NoSideOut == [err |-> "none", status |-> 0, settings |-> 0, vitals |-> 0]

InitMain ==
  /\ dev = [led |-> 0]
  /\ data = NoSnapshot
  /\ polls = [t \in Triggers |-> IdlePoll]
  /\ nPolls = 0
  /\ refreshReq = FALSE
  /\ inv = NoInv
  /\ nOps = 0
  /\ ledSet = [set |-> FALSE, value |-> Float(0, 0)]

InitHost ==
  /\ bs = NoBs
  /\ hassData = NoPairs
  /\ entries = [e \in Entries |-> NoEntry]
  /\ nSetups = 0
  /\ flow = NoFlow
  /\ platforms = NoPlatforms
  /\ svc = NoSvc

Init ==
  /\ InitMain
  /\ sd = NoSideCall
  /\ InitHost

\* ---------------------------------------------------------------- polling
\* A poll that awaits its requests one after the other: only the first is
\* issued when the poll starts.
StartPoll_Serial(t) ==
  /\ polls[t].st # "running"
  /\ nPolls < MaxPolls
  /\ t = "request" => refreshReq
  /\ nPolls' = nPolls + 1
  /\ polls' = [polls EXCEPT ![t] =
       [st |-> "running", id |-> nPolls + 1,
        res |-> [f \in Fetches |-> IF f = "status" THEN Pending ELSE NoResult],
        ret |-> NoSnapshot, fresh |-> TRUE,
        sent |-> [f \in Fetches |-> IF f = "status" THEN 1 ELSE 0]]]
  /\ refreshReq' = IF t = "request" THEN FALSE ELSE refreshReq
  /\ UNCHANGED <<dev, data, inv, nOps, ledSet, sd, hostVars>>

\* The coordinator starts a poll: Pod.async_fetch_state creates its four
\* requests and awaits gather, which schedules all of them.
StartPoll(t) ==
  /\ polls[t].st # "running"
  /\ nPolls < MaxPolls
  /\ t = "request" => refreshReq
  /\ nPolls' = nPolls + 1
  /\ polls' = [polls EXCEPT ![t] =
       [st |-> "running", id |-> nPolls + 1,
        res |-> [f \in Fetches |-> Pending],
        ret |-> NoSnapshot, fresh |-> TRUE,
        sent |-> [f \in Fetches |-> 1]]]
  /\ refreshReq' = IF t = "request" THEN FALSE ELSE refreshReq
  /\ UNCHANGED <<dev, data, inv, nOps, ledSet, sd, hostVars>>

\* One request of a running poll is answered by the device.
FetchOk(t, f) ==
  /\ polls[t].st = "running"
  /\ polls[t].res[f].st = "pending"
  /\ polls' = [polls EXCEPT ![t].res[f] = Response(polls[t].id, f)]
  /\ UNCHANGED <<dev, data, nPolls, refreshReq, inv, nOps, ledSet, sd, hostVars>>

\* One request of a running poll fails (non-2xx answer or network error).
FetchFail(t, f) ==
  /\ polls[t].st = "running"
  /\ polls[t].res[f].st = "pending"
  /\ polls' = [polls EXCEPT ![t].res[f] = Failed]
  /\ UNCHANGED <<dev, data, nPolls, refreshReq, inv, nOps, ledSet, sd, hostVars>>

\* An aggregator that issues a failed request once more before it gives up.
Resume_Retry(t) ==
  /\ polls[t].st = "running"
  /\ AwaitGather(polls[t].res) # "wait"
  /\ IF AwaitGather(polls[t].res) = "return"
     THEN /\ polls' = [polls EXCEPT ![t] =
                [polls[t] EXCEPT !.st = "done",
                                 !.res = [f \in Fetches |-> NoResult],
                                 !.ret = MergeState(polls[t].res)]]
          /\ data' = MergeState(polls[t].res)
     ELSE /\ polls' = [polls EXCEPT ![t] =
                IF \E f \in Fetches :
                     polls[t].res[f].st = "failed" /\ polls[t].sent[f] = 1
                THEN [polls[t] EXCEPT
                        !.res = [f \in Fetches |->
                                   IF polls[t].res[f].st = "failed"
                                   THEN Pending ELSE polls[t].res[f]],
                        !.sent = [f \in Fetches |->
                                    IF polls[t].res[f].st = "failed"
                                    THEN 2 ELSE polls[t].sent[f]]]
                ELSE [polls[t] EXCEPT !.st = "failed",
                                      !.res = [f \in Fetches |-> NoResult],
                                      !.ret = NoSnapshot]]
          /\ data' = data
  /\ UNCHANGED <<dev, nPolls, refreshReq, inv, nOps, ledSet, sd, hostVars>>

\* Pod.async_fetch_state resumes from its await.  When gather returned, it
\* builds and returns the snapshot and the coordinator stores it as its
\* data; when gather raised, the exception propagates to the coordinator,
\* which keeps its data.  Requests still pending then are left behind:
\* nothing awaits their answers.
Resume(t) ==
  /\ polls[t].st = "running"
  /\ AwaitGather(polls[t].res) # "wait"
  /\ IF AwaitGather(polls[t].res) = "return"
     THEN /\ polls' = [polls EXCEPT ![t] =
                [polls[t] EXCEPT !.st = "done",
                                 !.res = [f \in Fetches |-> NoResult],
                                 !.ret = MergeState(polls[t].res)]]
          /\ data' = MergeState(polls[t].res)
     ELSE /\ polls' = [polls EXCEPT ![t] =
                [polls[t] EXCEPT !.st = "failed",
                                 !.res = [f \in Fetches |-> NoResult],
                                 !.ret = NoSnapshot]]
          /\ data' = data
  /\ UNCHANGED <<dev, nPolls, refreshReq, inv, nOps, ledSet, sd, hostVars>>

\* A cancellation that hands on what the poll had fetched so far.
CancelPoll_KeepPartial(t) ==
  /\ polls[t].st = "running"
  /\ polls' = [polls EXCEPT ![t] =
       [polls[t] EXCEPT !.st = "cancelled",
                        !.res = [f \in Fetches |-> NoResult],
                        !.ret = NoSnapshot]]
  /\ data' = IF polls[t].res["status"].st = "ok"
             THEN [data EXCEPT !.present = TRUE,
                               !.status = polls[t].res["status"]]
             ELSE data
  /\ UNCHANGED <<dev, nPolls, refreshReq, inv, nOps, ledSet, sd, hostVars>>

\* The host cancels the task that runs the poll while it awaits gather:
\* gather cancels the requests still in flight and CancelledError is raised
\* out of Pod.async_fetch_state, which returns nothing; the results that had
\* arrived are dropped with it.
CancelPoll(t) ==
  /\ polls[t].st = "running"
  /\ polls' = [polls EXCEPT ![t] =
       [polls[t] EXCEPT !.st = "cancelled",
                        !.res = [f \in Fetches |-> NoResult],
                        !.ret = NoSnapshot]]
  /\ data' = data
  /\ UNCHANGED <<dev, nPolls, refreshReq, inv, nOps, ledSet, sd, hostVars>>

\* --------------------------------------------------------------- controls
\* A control is invoked and awaits its client call.
Invoke(op, side, arg, value, calls) ==
  /\ inv.pc # "awaiting"
  /\ nOps < MaxOps
  /\ nOps' = nOps + 1
  /\ inv' = [pc |-> "awaiting", op |-> op, side |-> side, arg |-> arg,
             value |-> value, calls |-> calls, resp |-> "none",
             refresh |-> FALSE]
  /\ UNCHANGED <<dev, data, polls, nPolls, refreshReq, ledSet, sd, hostVars>>

\* Pod.set_prime_daily(enabled)
CallSetPrimeDaily(enabled) ==
  Invoke("set_prime_daily", "none", JBool(enabled), Float(0, 0),
         PodSetPrimeDaily(enabled))

\* A number entity that requests the refresh before it awaits set_value.
NumberSetNativeValue_RefreshFirst(value) ==
  /\ inv.pc # "awaiting"
  /\ nOps < MaxOps
  /\ nOps' = nOps + 1
  /\ inv' = [pc |-> "awaiting", op |-> "set_led_brightness", side |-> "none",
             arg |-> JNum(ToInt(value)), value |-> value,
             calls |-> NumberSetValueCalls(value), resp |-> "none",
             refresh |-> TRUE]
  /\ refreshReq' = TRUE
  /\ UNCHANGED <<dev, data, polls, nPolls, ledSet, sd, hostVars>>

\* FreeSleepNumber.async_set_native_value(value), up to its first await:
\* set_value(pod, value) is pod.set_led_brightness(int(value)).
NumberSetNativeValue(value) ==
  Invoke("set_led_brightness", "none", JNum(ToInt(value)), value,
         NumberSetValueCalls(value))

\* Side.set_active(active) of the Side with the given type
CallSetActive(type, active) ==
  Invoke("set_active", type, JBool(active), Float(0, 0),
         SideSetActive(type, active))

\* Side.set_target_temperature(temperature_f) of the Side with the given type
CallSetTargetTemperature(type, temperature_f) ==
  Invoke("set_target_temperature", type, JNum(temperature_f), Float(0, 0),
         SideSetTargetTemperature(type, temperature_f))

\* FreeSleepButton.async_press of the button with the given key
ButtonPress(key) ==
  Invoke("press_" \o key, "none", JBool(TRUE), Float(0, 0), ButtonHandle(key))

\* The device applies a POST it received: a new settings.ledBrightness is what
\* later status GETs answer.
DeviceApply(d, c) ==
  IF c.fn = "set_led_brightness" THEN [d EXCEPT !.led = c.arg.n] ELSE d

\* A method that catches the client's exception and returns.
MethodOutcome_Swallowed(ok) == "returned"

\* `await self.api...(...)` with no try around it, in the Pod / Side method
\* and in the entity action that awaits the method: the call's exception is
\* the method's and the action's.
MethodOutcome(ok) == IF ok THEN "returned" ELSE "raised"

\* Whether the entity action goes on, after its awaited method has returned,
\* to `await self.coordinator.async_request_refresh()`: the number entity
\* does; the button's async_press ends with the await of its handle, and the
\* methods of Pod and Side request nothing.
RequestsRefresh(op) == op = "set_led_brightness"

\* What the completion of the awaited client call changes besides the
\* cache.  On success the device has applied the request; on failure (non-2xx
\* answer or network error) it may or may not have.  After a success the
\* number entity requests a refresh from the coordinator; a failure
\* propagates out of the method instead.
ApiReturnEffect(ok, applied) ==
  /\ inv.pc = "awaiting"
  /\ ok => applied
  /\ inv' = [inv EXCEPT !.pc = MethodOutcome(ok),
                        !.resp = IF ok THEN "ok" ELSE "error",
                        !.refresh = ok /\ RequestsRefresh(inv.op)]
  /\ dev' = IF applied THEN DeviceApply(dev, inv.calls[1]) ELSE dev
  /\ IF applied /\ inv.op = "set_led_brightness"
     THEN /\ ledSet' = [set |-> TRUE, value |-> inv.value]
          /\ polls' = [t \in Triggers |-> [polls[t] EXCEPT !.fresh = FALSE]]
     ELSE UNCHANGED <<ledSet, polls>>
  /\ refreshReq' = IF ok /\ RequestsRefresh(inv.op) THEN TRUE ELSE refreshReq
  /\ UNCHANGED <<nPolls, nOps, sd, hostVars>>

\* A facade that writes the value it has sent into the cached snapshot.
ApiReturn_Optimistic(ok, applied) ==
  /\ ApiReturnEffect(ok, applied)
  /\ data' = IF ok /\ data.present /\ inv.op = "set_led_brightness"
             THEN [data EXCEPT !.status.settings.ledBrightness = inv.arg.n]
             ELSE data

\* The awaited client call of a control completes: the method returns or
\* raises, and leaves coordinator.data alone.
ApiReturn(ok, applied) ==
  /\ ApiReturnEffect(ok, applied)
  /\ data' = data

\* An entity asks the coordinator for a refresh
\* (coordinator.async_request_refresh()).
RequestRefresh ==
  /\ ~refreshReq
  /\ refreshReq' = TRUE
  /\ UNCHANGED <<dev, data, polls, nPolls, inv, nOps, ledSet, sd, hostVars>>

\* The aggregator and the coordinator: polls started by the interval timer
\* and by refresh requests, which may overlap.
Next ==
  \/ \E t \in Triggers : StartPoll(t)
  \/ \E t \in Triggers, f \in Fetches : FetchOk(t, f)
  \/ \E t \in Triggers, f \in Fetches : FetchFail(t, f)
  \/ \E t \in Triggers : Resume(t)
  \/ RequestRefresh

Spec == Init /\ [][Next]_vars

\* The same, with the host cancelling polls.
NextCancel ==
  \/ Next
  \/ \E t \in Triggers : CancelPoll(t)

SpecCancel == Init /\ [][NextCancel]_vars

\* Every control of the facade and of the entities, with the coordinator
\* polling on its interval.
NextCtl ==
  \/ StartPoll("interval")
  \/ \E f \in Fetches : FetchOk("interval", f)
  \/ \E f \in Fetches : FetchFail("interval", f)
  \/ Resume("interval")
  \/ \E enabled \in BOOLEAN : CallSetPrimeDaily(enabled)
  \/ \E value \in Floats : NumberSetNativeValue(value)
  \/ \E type \in PodSide, active \in BOOLEAN : CallSetActive(type, active)
  \/ \E type \in PodSide, temperature_f \in Temperatures :
        CallSetTargetTemperature(type, temperature_f)
  \/ \E key \in ButtonKeys : ButtonPress(key)
  \/ \E ok \in BOOLEAN, applied \in BOOLEAN : ApiReturn(ok, applied)

SpecCtl == Init /\ [][NextCtl]_vars

\* Side.get_side_data as a function of the Side's type and the snapshot.
InitSide ==
  /\ InitMain
  /\ InitHost
  /\ \E type \in SideTypes, d \in PodStates :
       sd = [pc |-> "call", type |-> type, data |-> d, out |-> NoSideOut]

CallGetSideData ==
  /\ sd.pc = "call"
  /\ sd' = [sd EXCEPT !.pc = "done", !.out = GetSideData(sd.type, sd.data)]
  /\ UNCHANGED <<dev, data, polls, nPolls, refreshReq, inv, nOps, ledSet,
                 hostVars>>

NextSide == CallGetSideData

SpecSide == InitSide /\ [][NextSide]_vars

\* The binary sensor platform over the snapshots the coordinator publishes.
\* The entities are added with the snapshot of the first refresh, which
\* Pod.async_fetch_state built.
InitBin ==
  /\ InitMain
  /\ sd = NoSideCall
  /\ hassData = NoPairs
  /\ entries = [e \in Entries |-> NoEntry]
  /\ nSetups = 0
  /\ flow = NoFlow
  /\ platforms = NoPlatforms
  /\ svc = NoSvc
  /\ \E p \in BOOLEAN, w \in WaterLevels :
       bs = Publish(NoBs, PodStateDoc(p, w), FALSE)

\* coordinator.async_set_updated_data(d): the snapshot is replaced and every
\* listening entity writes its state from it.
AsyncSetUpdatedData(d) ==
  /\ bs' = Publish(bs, d, TRUE)
  /\ UNCHANGED <<dev, data, polls, nPolls, refreshReq, inv, nOps, ledSet, sd,
                 hassData, entries, nSetups, flow,
                 platforms, svc>>

NextBin == \E d \in Snapshots : AsyncSetUpdatedData(d)

SpecBin == InitBin /\ [][NextBin]_vars

\* ------------------------------------------------ setup and unload
\* The host calls async_setup_entry(hass, entry) for an entry that is not
\* loaded: the client and the coordinator are built and the first refresh is
\* awaited.
AsyncSetupEntry(e) ==
  /\ entries[e].pc = "idle"
  /\ entries[e].state \in {"not_loaded", "setup_retry", "setup_error"}
  /\ nSetups < MaxSetups
  /\ nSetups' = nSetups + 1
  /\ entries' = [entries EXCEPT ![e].pc = "first_refresh",
                                ![e].result = "none",
                                ![e].pair = nSetups + 1]
  /\ UNCHANGED <<dev, data, polls, nPolls, refreshReq, inv, nOps, ledSet, sd,
                 bs, hassData, flow,
                 platforms, svc>>

\* coordinator.async_config_entry_first_refresh() returns or raises.  When it
\* returns, the Pod is built and the pair is stored in hass.data[DOMAIN]
\* before the platforms are forwarded to; when it raises, the setup ends
\* there.
FirstRefreshDone(e, ok) ==
  /\ entries[e].pc = "first_refresh"
  /\ IF ok
     THEN /\ hassData' = DictSet(hassData, e, Pair(entries[e].pair))
          /\ entries' = [entries EXCEPT ![e].pc = "forward"]
     ELSE /\ hassData' = hassData
          /\ entries' = [entries EXCEPT ![e].pc = "idle",
                                        ![e].state = "setup_retry",
                                        ![e].result = "raised"]
  /\ UNCHANGED <<dev, data, polls, nPolls, refreshReq, inv, nOps, ledSet, sd,
                 bs, nSetups, flow,
                 platforms, svc>>

\* hass.config_entries.async_forward_entry_setups(entry, PLATFORMS) returns
\* and async_setup_entry returns True, or it raises and so does the setup.
ForwardEntrySetupsDone(e, ok) ==
  /\ entries[e].pc = "forward"
  /\ entries' = IF ok
                THEN [entries EXCEPT ![e].pc = "idle", ![e].state = "loaded",
                                     ![e].result = "true", ![e].loaded = TRUE]
                ELSE [entries EXCEPT ![e].pc = "idle",
                                     ![e].state = "setup_error",
                                     ![e].result = "raised"]
  /\ UNCHANGED <<dev, data, polls, nPolls, refreshReq, inv, nOps, ledSet, sd,
                 bs, hassData, nSetups, flow,
                 platforms, svc>>

\* The host calls async_unload_entry(hass, entry) for a loaded entry.
AsyncUnloadEntry(e) ==
  /\ entries[e].pc = "idle"
  /\ entries[e].state = "loaded"
  /\ entries' = [entries EXCEPT ![e].pc = "unload", ![e].result = "none"]
  /\ UNCHANGED <<dev, data, polls, nPolls, refreshReq, inv, nOps, ledSet, sd,
                 bs, hassData, nSetups, flow,
                 platforms, svc>>

\* async_unload_platforms returned unload_ok: if it is true the entry is
\* popped from hass.data[DOMAIN]; unload_ok is returned.
UnloadPlatformsDone(e, unload_ok) ==
  /\ entries[e].pc = "unload"
  /\ IF unload_ok
     THEN /\ hassData' = DictPop(hassData, e)
          /\ entries' = [entries EXCEPT ![e].pc = "idle",
                                        ![e].state = "not_loaded",
                                        ![e].result = "true",
                                        ![e].loaded = FALSE]
     ELSE /\ hassData' = hassData
          /\ entries' = [entries EXCEPT ![e].pc = "idle",
                                        ![e].state = "failed_unload",
                                        ![e].result = "false"]
  /\ UNCHANGED <<dev, data, polls, nPolls, refreshReq, inv, nOps, ledSet, sd,
                 bs, nSetups, flow,
                 platforms, svc>>

NextEntry ==
  \/ \E e \in Entries : AsyncSetupEntry(e)
  \/ \E e \in Entries, ok \in BOOLEAN : FirstRefreshDone(e, ok)
  \/ \E e \in Entries, ok \in BOOLEAN : ForwardEntrySetupsDone(e, ok)
  \/ \E e \in Entries : AsyncUnloadEntry(e)
  \/ \E e \in Entries, unload_ok \in BOOLEAN : UnloadPlatformsDone(e, unload_ok)

SpecEntry == Init /\ [][NextEntry]_vars

\* ------------------------------------------------------------ config flow
\* FreeSleepConfigFlow.async_step_user(user_input) with the form filled in,
\* up to the first await of validate_setup: a host that fails the scheme
\* check raises ValueError('invalid_url'), which becomes errors['host'] and
\* the form is shown again; any other host goes on to validate_connection.
AsyncStepUser(user_input) ==
  /\ flow.pc = "form"
  /\ flow.submits < MaxSubmits
  /\ flow' = IF ValidUrl(user_input.host)
             THEN [flow EXCEPT !.pc = "connecting", !.input = user_input,
                               !.errors = "", !.submits = @ + 1,
                               !.attempts = @ + 1]
             ELSE [flow EXCEPT !.input = user_input,
                               !.errors = "invalid_url",
                               !.submits = @ + 1]
  /\ UNCHANGED <<dev, data, polls, nPolls, refreshReq, inv, nOps, ledSet, sd,
                 bs, hassData, entries, nSetups,
                 platforms, svc>>

\* validate_connection comes back, for the fetch outcome c (kept in
\* flow.conn): with the status's hubVersion, and the
\* entry is created with it as title and the user input as data; or with
\* ValueError('cannot_connect'), whatever went wrong, and the form is shown
\* again.
ValidateConnectionDone(c) ==
  /\ flow.pc = "connecting"
  /\ LET v == ValidateConnection(c)
     IN  flow' = IF v.raised = ""
                 THEN [flow EXCEPT !.pc = "created", !.conn = c,
                                   !.entry = [created |-> TRUE, title |-> v.name,
                                              data |-> flow.input]]
                 ELSE [flow EXCEPT !.pc = "form", !.conn = c,
                                   !.errors = v.raised]
  /\ UNCHANGED <<dev, data, polls, nPolls, refreshReq, inv, nOps, ledSet, sd,
                 bs, hassData, entries, nSetups,
                 platforms, svc>>

NextFlow ==
  \/ \E user_input \in UserInputs : AsyncStepUser(user_input)
  \/ \E c \in Connections : ValidateConnectionDone(c)

SpecFlow == Init /\ [][NextFlow]_vars

\* ------------------------------------------------------ entity platforms
\* The platforms of one pod being set up, in any order.
InitIds ==
  /\ InitMain
  /\ sd = NoSideCall
  /\ bs = NoBs
  /\ hassData = NoPairs
  /\ entries = [e \in Entries |-> NoEntry]
  /\ nSetups = 0
  /\ flow = NoFlow
  /\ svc = NoSvc
  /\ \E podId \in PodIds : platforms = [NoPlatforms EXCEPT !.pod = podId]

\* The next async_add_entities call of the platform's async_setup_entry.
AsyncAddEntities(p) ==
  /\ platforms.calls[p] < AddCalls(p)
  /\ platforms' =
       [platforms EXCEPT
          !.calls[p] = @ + 1,
          !.added[p] = @ \o AddedEntities(p, platforms.pod, platforms.calls[p] + 1)]
  /\ UNCHANGED <<dev, data, polls, nPolls, refreshReq, inv, nOps, ledSet, sd,
                 bs, hassData, entries, nSetups, flow, svc>>

NextIds == \E p \in Platforms : AsyncAddEntities(p)

SpecIds == InitIds /\ [][NextIds]_vars

\* ----------------------------------------------------------------- services
\* A service call arrives with some pods registered in hass.data[DOMAIN], or
\* before the first setup of an entry has created hass.data[DOMAIN].
InitSvc ==
  /\ InitMain
  /\ sd = NoSideCall
  /\ bs = NoBs
  /\ entries = [e \in Entries |-> NoEntry]
  /\ nSetups = 0
  /\ flow = NoFlow
  /\ platforms = NoPlatforms
  /\ \E S \in SUBSET Entries, b \in BOOLEAN :
       /\ ~b => S = {}
       /\ hassData = [e \in S |-> Pair(1)]
       /\ svc = [NoSvc EXCEPT !.hasDomain = b]

\* The elements of a finite set, as a list.
RECURSIVE SetToSeq(_)
SetToSeq(S) ==
  IF S = {} THEN <<>>
  ELSE LET x == CHOOSE y \in S : TRUE IN <<x>> \o SetToSeq(S \ {x})

\* The loop of handle_execute reaches its next matching pod and awaits its
\* execute_command, or has none left and returns None.
ExecuteNext(s) ==
  IF s.pending = {}
  THEN [s EXCEPT !.pc = "done", !.result = "None"]
  ELSE LET e == CHOOSE x \in s.pending : TRUE
       IN  [s EXCEPT !.pc = "awaiting", !.pending = @ \ {e},
                     !.executed = Append(@, e)]

\* handle_execute, up to its first await.
HandleExecute(pod_id, return_response) ==
  /\ svc.pc = "idle"
  /\ LET pod == AsyncGet(pod_id)
         s == [svc EXCEPT !.op = "execute", !.pod_id = pod_id,
                          !.return_response = return_response]
     IN  svc' =
           IF pod = None
           THEN [s EXCEPT !.pc = "done", !.result = "ValueError"]
           ELSE IF ~svc.hasDomain
           THEN [s EXCEPT !.pc = "done", !.result = "KeyError"]
           ELSE ExecuteNext([s EXCEPT !.pending = ExecutePods(hassData, pod)])
  /\ UNCHANGED <<dev, data, polls, nPolls, refreshReq, inv, nOps, ledSet, sd,
                 bs, hassData, entries, nSetups, flow, platforms>>

\* pod_instance.execute_command returns a response, returns nothing, or
\* raises.
ExecuteCommandDone(outcome) ==
  /\ svc.op = "execute"
  /\ svc.pc = "awaiting"
  /\ svc' =
       IF outcome = "raised"
       THEN [svc EXCEPT !.pc = "done", !.result = "raised"]
       ELSE IF outcome = "response" /\ svc.return_response
       THEN [svc EXCEPT !.pc = "done", !.result = "response"]
       ELSE ExecuteNext(svc)
  /\ UNCHANGED <<dev, data, polls, nPolls, refreshReq, inv, nOps, ledSet, sd,
                 bs, hassData, entries, nSetups, flow, platforms>>

\* handle_set_schedule, up to its loop over the side identifiers.
HandleSetSchedule(side, day_of_week, unit, schedule) ==
  /\ svc.pc = "idle"
  /\ svc' = [svc EXCEPT
               !.op = "set_schedule", !.pc = "loop",
               !.side = side, !.day_of_week = day_of_week,
               !.unit = unit, !.input = schedule,
               !.side_ids = AsList(side),
               !.days_of_week = AsList(GetDayOfWeek(day_of_week)),
               !.schedule = ScheduleToFahrenheit(unit, schedule),
               !.i = 1]
  /\ UNCHANGED <<dev, data, polls, nPolls, refreshReq, inv, nOps, ledSet, sd,
                 bs, hassData, entries, nSetups, flow, platforms>>

\* One iteration of the loop over side_ids, with the set_schedule call it
\* awaits returning (ok) or raising; after the last, the handler returns.
SetScheduleStep(ok) ==
  /\ svc.op = "set_schedule"
  /\ svc.pc = "loop"
  /\ svc' =
       IF svc.i > Len(svc.side_ids)
       THEN [svc EXCEPT !.pc = "done", !.result = "None"]
       ELSE
         LET side == AsyncGet(svc.side_ids[svc.i])
         IN  IF side = None
             THEN [svc EXCEPT !.pc = "done", !.result = "ValueError"]
             ELSE IF ~svc.hasDomain
             THEN [svc EXCEPT !.pc = "done", !.result = "KeyError"]
             ELSE
               LET m == SetToSeq(ScheduleSides(hassData, side))
                   made == [k \in DOMAIN m |->
                              ScheduleCall(m[k][1], m[k][2], svc.days_of_week,
                                           svc.schedule)]
               IN  IF ok \/ m = <<>>
                   THEN [svc EXCEPT !.i = @ + 1, !.calls = @ \o made]
                   ELSE [svc EXCEPT !.pc = "done", !.result = "raised",
                                    !.calls = Append(@, made[1])]
  /\ UNCHANGED <<dev, data, polls, nPolls, refreshReq, inv, nOps, ledSet, sd,
                 bs, hassData, entries, nSetups, flow, platforms>>

NextSvc ==
  \/ \E pod_id \in PodDeviceIds, return_response \in BOOLEAN :
       HandleExecute(pod_id, return_response)
  \/ \E outcome \in {"response", "empty", "raised"} : ExecuteCommandDone(outcome)
  \/ \E side \in SideInputs, day_of_week \in DayInputs, unit \in Units,
        schedule \in Schedules :
       HandleSetSchedule(side, day_of_week, unit, schedule)
  \/ \E ok \in BOOLEAN : SetScheduleStep(ok)

SpecSvc == InitSvc /\ [][NextSvc]_vars

\* ================================================================= claims
HasFailure(t) == \E f \in Fetches : polls[t].res[f].st = "failed"

\* Poll t has handed no snapshot to its caller, and the visible snapshot is
\* not one of poll t.
NoSnapshotFrom(t) ==
  /\ polls[t].st # "done"
  /\ ~polls[t].ret.present
  /\ data.present => data.status.poll # polls[t].id

Completes(t) == polls[t].st = "running" /\ polls'[t].st = "done"

\* C1: Pod.async_fetch_state is all-or-nothing.  Once any of the four
\* fetches of a poll has failed, whatever the other three do, the poll never
\* returns a snapshot and none of its results becomes visible: it ends as
\* failed.
C1_AllOrNothing ==
  [][\A t \in Triggers :
       HasFailure(t) =>
         /\ NoSnapshotFrom(t)'
         /\ polls'[t].st = "running" => HasFailure(t)'
         /\ polls'[t].st # "running" => polls'[t].st = "failed"]_vars

\* A poll has ended as failed and returned nothing, while the snapshot of an
\* earlier poll is cached.
C1_Witness ==
  \E t \in Triggers :
    /\ polls[t].st = "failed"
    /\ ~polls[t].ret.present
    /\ data.present
    /\ data.status.poll < polls[t].id

\* C2: the visible snapshot is absent, or its status, settings and both
\* vitals all come from one poll, and that poll has completed.
C2_SnapshotOfOnePoll ==
  data.present =>
    /\ data.status.st = "ok"
    /\ data.status.poll \in 1..nPolls
    /\ data.settings.poll = data.status.poll
    /\ data.vitals.left.poll = data.status.poll
    /\ data.vitals.right.poll = data.status.poll
    /\ \A t \in Triggers :
         polls[t].id = data.status.poll => polls[t].st = "done"

\* A snapshot is visible while a later poll is in progress and has already
\* obtained some of its results.
C2_Witness ==
  /\ data.present
  /\ \E t \in Triggers :
       /\ polls[t].st = "running"
       /\ polls[t].id > data.status.poll
       /\ \E f \in Fetches : polls[t].res[f].st = "ok"

\* C3: the merge of a poll runs only when all four fetches have resolved,
\* and it puts each result in its own slot: status, settings, vitals.left,
\* vitals.right, in whatever order the results arrived.
C3_MergeAfterAll ==
  [][\A t \in Triggers :
       Completes(t) =>
         /\ \A f \in Fetches :
              polls[t].res[f].st = "ok" /\ polls[t].res[f].src = f
         /\ data'.present
         /\ data'.status = polls[t].res["status"]
         /\ data'.settings = polls[t].res["settings"]
         /\ data'.vitals.left = polls[t].res["vitals_left"]
         /\ data'.vitals.right = polls[t].res["vitals_right"]
         /\ polls'[t].ret = data']_vars

\* A poll has completed and its snapshot is the visible one.
C3_Witness ==
  \E t \in Triggers :
    /\ polls[t].st = "done"
    /\ polls[t].ret.present
    /\ data = polls[t].ret
    /\ data.vitals.left.src = "vitals_left"
    /\ data.vitals.right.src = "vitals_right"

HasAllKeys(type, d) ==
  HasKey(d.status, type) /\ HasKey(d.settings, type) /\ HasKey(d.vitals, type)

\* C4: for a Side of type left or right and a snapshot that carries that
\* side, get_side_data returns exactly snapshot.status[side],
\* snapshot.settings[side] and snapshot.vitals[side].
C4_SideDataExact ==
  (sd.pc = "done" /\ sd.type \in PodSide /\ HasAllKeys(sd.type, sd.data)) =>
    /\ sd.out.err = "none"
    /\ sd.out.status = sd.data.status[sd.type]
    /\ sd.out.settings = sd.data.settings[sd.type]
    /\ sd.out.vitals = sd.data.vitals[sd.type]

\* The right Side has read a snapshot whose two sides differ in every part.
C4_Witness ==
  /\ sd.pc = "done"
  /\ sd.type = "right"
  /\ HasAllKeys("left", sd.data) /\ HasAllKeys("right", sd.data)
  /\ sd.data.status["left"] # sd.data.status["right"]
  /\ sd.data.settings["left"] # sd.data.settings["right"]
  /\ sd.data.vitals["left"] # sd.data.vitals["right"]
  /\ sd.out.vitals = sd.data.vitals["right"]

\* C5: when status, settings or vitals of the snapshot lacks the Side's key,
\* get_side_data raises; it returns no data.
C5_MissingKeyRaises ==
  (sd.pc = "done" /\ ~HasAllKeys(sd.type, sd.data)) => sd.out.err = "KeyError"

\* The right Side has read a snapshot of which only the vitals miss 'right'.
C5_Witness ==
  /\ sd.pc = "done"
  /\ sd.type = "right"
  /\ HasKey(sd.data.status, "right") /\ HasKey(sd.data.settings, "right")
  /\ ~HasKey(sd.data.vitals, "right")
  /\ sd.out.err = "KeyError"

FacadeMutations ==
  {"set_led_brightness", "set_prime_daily", "set_active",
   "set_target_temperature"}

\* C6: a mutation method of the facade does not touch the cache: neither
\* the step that invokes Pod.set_led_brightness, Pod.set_prime_daily,
\* Side.set_active or Side.set_target_temperature nor the step in which it
\* returns or raises changes coordinator.data.
C6_MutationKeepsCache ==
  [][(inv' # inv /\ inv'.op \in FacadeMutations) => data' = data]_vars

\* set_led_brightness has returned, the device holds the new value, and the
\* cached snapshot still holds the old one.
C6_Witness ==
  /\ inv.op = "set_led_brightness"
  /\ inv.pc = "returned"
  /\ data.present
  /\ dev.led = inv.arg.n
  /\ NumberGetValue(data) # dev.led

\* C7 as stated: a poll that started after the device accepted x, with no
\* LED write since, completes with the entity's value equal to x, and no
\* other step changes the entity's value.
C7_Original ==
  [][/\ \A t \in Triggers :
          (Completes(t) /\ polls[t].fresh /\ ledSet.set) =>
            IntEqFloat(NumberGetValue(data'), ledSet.value)
     /\ (ledSet.set /\ data.present
           /\ NumberGetValue(data') # NumberGetValue(data)) =>
          \E t \in Triggers : Completes(t) /\ polls[t].fresh]_vars

\* C7 (amended): a poll that started after the device accepted the write of
\* x, with no LED write since, completes with the entity's value equal to
\* int(x); and the entity's value changes only in a step in which some poll
\* completes.
C7_LedEchoedTruncated ==
  [][/\ \A t \in Triggers :
          (Completes(t) /\ polls[t].fresh /\ ledSet.set) =>
            NumberGetValue(data') = ToInt(ledSet.value)
     /\ NumberGetValue(data') # NumberGetValue(data) =>
          \E t \in Triggers : Completes(t)]_vars

\* The entity was set to 1.5, the device accepted, and a poll started after
\* that has completed: the entity reports 1.
C7_Witness ==
  /\ ledSet.set
  /\ ledSet.value = Float(1, 1)
  /\ \E t \in Triggers :
       /\ polls[t].st = "done"
       /\ polls[t].fresh
       /\ data = polls[t].ret
  /\ NumberGetValue(data) = 1

\* C8: every invocation of a control has issued exactly one client call,
\* now and after it has returned; for the four facade methods the call
\* carries the argument given, and for the per-side ones the Side's type.
C8_OneClientCall ==
  inv.pc # "idle" =>
    /\ Len(inv.calls) = 1
    /\ inv.op \in FacadeMutations => inv.calls[1].arg = inv.arg
    /\ inv.op \in {"set_active", "set_target_temperature"} =>
         inv.calls[1].side = inv.side

\* Side.set_active(FALSE) of the right Side awaits its one client call.
C8_Witness ==
  /\ inv.pc = "awaiting"
  /\ inv.op = "set_active"
  /\ inv.side = "right"
  /\ inv.calls = <<ApiCall("set_side_active", "right", JBool(FALSE))>>

\* C9: a press of the Prime button has issued exactly one POST, to
\* /api/deviceStatus with body {"isPriming": true}.
C9_PrimePost ==
  (inv.op = "press_prime" /\ inv.pc # "idle") =>
    Posts = <<HttpPost("/api/deviceStatus", <<"isPriming">>, JBool(TRUE))>>

\* Prime was pressed while a snapshot was cached, and the press has returned.
C9_Witness ==
  /\ inv.op = "press_prime"
  /\ inv.pc = "returned"
  /\ data.present
  /\ Len(Posts) = 1

\* C10: a press of the Reboot button has issued exactly one POST, to the
\* jobs endpoint with body ["reboot"], and none to /api/deviceStatus.
C10_RebootPost ==
  (inv.op = "press_reboot" /\ inv.pc # "idle") =>
    /\ Len(Posts) = 1
    /\ Posts[1] = HttpPost(JOBS_ENDPOINT, <<>>, JList("reboot"))
    /\ \A i \in 1..Len(Posts) : Posts[i].path # "/api/deviceStatus"

\* Reboot was pressed and the press awaits its POST to the jobs endpoint.
C10_Witness ==
  /\ inv.op = "press_reboot"
  /\ inv.pc = "awaiting"
  /\ Posts[1].path = JOBS_ENDPOINT

\* C11: the Priming binary sensor is on exactly when status.isPriming of the
\* current snapshot is true, at setup and after every snapshot update.
C11_PrimingFollowsStatus ==
  /\ bs.state["priming"] \in {"on", "off"}
  /\ bs.state["priming"] = "on" <=> bs.data.status.isPriming = JBool(TRUE)

\* The snapshot with isPriming false was replaced by one with isPriming true,
\* and the sensor is on.
C11_Witness ==
  /\ bs.updated
  /\ bs.prev.status.isPriming = JBool(FALSE)
  /\ bs.data.status.isPriming = JBool(TRUE)
  /\ bs.data.status.waterLevel = JStr("true")
  /\ bs.state["priming"] = "on"

\* The snapshot d with status.isPriming set to v.
WithPriming(d, v) == [d EXCEPT !.status.isPriming = v]

\* C12: an update that replaces the snapshot by one differing only in
\* status.isPriming changes the Priming sensor and no other entity value:
\* not the Water Level sensor, not a Presence sensor, not the LED number.
C12_OnlyPrimingChanges ==
  [][(/\ bs'.data # bs.data
      /\ bs'.data = WithPriming(bs.data, bs'.data.status.isPriming)) =>
       /\ bs'.state["priming"] # bs.state["priming"]
       /\ \A e \in BinarySensors \ {"priming"} : bs'.state[e] = bs.state[e]
       /\ bs'.led = bs.led]_vars

\* Such an update has happened while the Water Level sensor reported a
\* problem, and it still does.
C12_Witness ==
  /\ bs.updated
  /\ bs.data # bs.prev
  /\ bs.data = WithPriming(bs.prev, bs.data.status.isPriming)
  /\ bs.state["water_level"] = "on"
  /\ bs.state["priming"] = "on"

\* C13: the Water Level problem sensor is off when status.waterLevel is the
\* string "true" and on when it is the boolean false.
C13_WaterLevelProblem ==
  /\ bs.data.status.waterLevel = JStr("true") => bs.state["water_level"] = "off"
  /\ bs.data.status.waterLevel = JBool(FALSE) => bs.state["water_level"] = "on"

\* The snapshot with waterLevel "true" was replaced by one with waterLevel
\* false, and the sensor is on.
C13_Witness ==
  /\ bs.updated
  /\ bs.prev.status.waterLevel = JStr("true")
  /\ bs.data.status.waterLevel = JBool(FALSE)
  /\ bs.state["water_level"] = "on"

\* C14: when the snapshot carries presence data for both sides, reading the
\* Presence sensor of either side does not fail, and the sensor is on exactly
\* when presence[side].present is true.
C14_PresenceFollowsSnapshot ==
  "presence" \in DOMAIN bs.data =>
    /\ ~bs.raised["left_bed_presence"]
    /\ ~bs.raised["right_bed_presence"]
    /\ bs.state["left_bed_presence"] = "on"
         <=> bs.data.presence.left.present = JBool(TRUE)
    /\ bs.state["right_bed_presence"] = "on"
         <=> bs.data.presence.right.present = JBool(TRUE)

\* The poll of trigger t issues a request in this step.
Issues(t) == \E f \in Fetches : polls'[t].sent[f] > polls[t].sent[f]

\* C15: the fetches of a poll are all in flight together.  A running poll has
\* issued every one of its four requests, the vitals of left and of right
\* included, and whenever a poll issues a request none of its fetches has
\* completed yet: all four are pending at that moment.
C15_AllInFlight ==
  [][\A t \in Triggers :
       /\ polls'[t].st = "running" =>
            \A f \in Fetches :
              polls'[t].sent[f] >= 1 /\ polls'[t].res[f].st # "none"
       /\ Issues(t) =>
            \A f \in Fetches : polls'[t].res[f].st = "pending"]_vars

\* The vitals of the right side were answered while the vitals of the left
\* side and the status are still in flight.
C15_Witness ==
  \E t \in Triggers :
    /\ polls[t].st = "running"
    /\ polls[t].res["vitals_right"].st = "ok"
    /\ polls[t].res["vitals_left"].st = "pending"
    /\ polls[t].res["status"].st = "pending"

\* C16: each resource is requested exactly once in a poll, and a request that
\* failed stays failed until the poll ends: it is not issued again.
C16_OneAttempt ==
  [][\A t \in Triggers :
       /\ polls'[t].st # "idle" => \A f \in Fetches : polls'[t].sent[f] = 1
       /\ \A f \in Fetches :
            (polls[t].res[f].st = "failed" /\ polls'[t].id = polls[t].id) =>
              polls'[t].res[f].st \in {"failed", "none"}]_vars

\* A poll ended as failed, having requested each resource once.
C16_Witness ==
  \E t \in Triggers :
    /\ polls[t].st = "failed"
    /\ \A f \in Fetches : polls[t].sent[f] = 1

\* C17: when the client call behind a control failed, the method and the
\* entity action have raised; they have returned only when the call
\* succeeded.
C17_FailurePropagates ==
  /\ inv.resp = "error" => inv.pc = "raised"
  /\ inv.pc = "returned" => inv.resp = "ok"
  /\ inv.pc = "raised" => inv.resp = "error"

\* The POST of a button press failed and the press has raised.
C17_Witness ==
  /\ inv.op = "press_reboot"
  /\ inv.resp = "error"
  /\ inv.pc = "raised"

\* C18: whenever no setup or unload of an entry is in progress, the entry has
\* a pair in hass.data[DOMAIN] exactly if it was set up successfully and not
\* successfully unloaded since; and an unload that returned false left the
\* entry's pair in place.
C18_RegistryExact ==
  \A e \in Entries :
    entries[e].pc = "idle" =>
      /\ e \in DOMAIN hassData <=> entries[e].loaded
      /\ entries[e].state = "failed_unload" =>
           /\ entries[e].result = "false"
           /\ hassData[e] = Pair(entries[e].pair)

\* The form was submitted in this step.
Submitted == flow'.submits = flow.submits + 1

\* C19: submitting a host that starts with neither 'http://' nor 'https://'
\* makes no connection attempt and creates no entry, and the form is shown
\* again with the error 'invalid_url' on the host field.
C19_InvalidUrlRejected ==
  [][(/\ Submitted
      /\ ~StartsWith(flow'.input.host, HTTP)
      /\ ~StartsWith(flow'.input.host, HTTPS)) =>
       /\ flow'.attempts = flow.attempts
       /\ flow'.pc = "form"
       /\ flow'.errors = "invalid_url"
       /\ ~flow'.entry.created]_vars

\* 'ftp://p' was submitted after a submission that could not connect: the
\* form shows invalid_url and the one connection attempt is the earlier one.
C19_Witness ==
  /\ flow.submits = 2
  /\ flow.input.host = <<"f", "t", "p", ":", "/", "/", "p">>
  /\ flow.pc = "form"
  /\ flow.errors = "invalid_url"
  /\ flow.attempts = 1
  /\ ~flow.entry.created

\* C20: a poll that is cancelled while it runs leaves no fetch in flight,
\* returns no snapshot, and the step that cancels it keeps the visible
\* snapshot; the visible snapshot is never one of a cancelled poll.
C20_CancelKeepsSnapshot ==
  [][\A t \in Triggers :
       /\ (polls[t].st = "running" /\ polls'[t].st = "cancelled") =>
            data' = data
       /\ polls'[t].st = "cancelled" =>
            /\ \A f \in Fetches : polls'[t].res[f].st = "none"
            /\ ~polls'[t].ret.present
            /\ data'.present => data'.status.poll # polls'[t].id]_vars

\* A poll was cancelled while the snapshot of an earlier poll is visible.
C20_Witness ==
  \E t \in Triggers :
    /\ polls[t].st = "cancelled"
    /\ data.present
    /\ data.status.poll < polls[t].id

\* C21: every unique id a platform has added is the pod's id, the side for a
\* side entity, and the key, joined by underscores; and the ids within one
\* platform are pairwise distinct, between the two sides and between a side
\* entity and a pod entity as well.
C21_UniqueIds ==
  \A p \in Platforms :
    LET es == platforms.added[p]
    IN  /\ \A i \in DOMAIN es :
             es[i].uid = IF es[i].side = "none"
                         THEN platforms.pod \o "_" \o es[i].key
                         ELSE platforms.pod \o "_" \o es[i].side \o "_" \o es[i].key
        /\ \A i, j \in DOMAIN es : i # j => es[i].uid # es[j].uid

\* The sensor platform has added its two pod sensors and three sensors for
\* each side, for the pod with id e1_left.
C21_Witness ==
  /\ platforms.pod = "e1_left"
  /\ Len(platforms.added["sensor"]) = 8
  /\ \E i, j \in DOMAIN platforms.added["sensor"] :
       /\ platforms.added["sensor"][i].side = "left"
       /\ platforms.added["sensor"][j].side = "right"
       /\ platforms.added["sensor"][i].key = platforms.added["sensor"][j].key

\* The identifiers of a set-schedule call that precede its first identifier
\* that is not in the device registry.
RECURSIVE Resolved(_)
Resolved(ids) ==
  IF ids = <<>> \/ AsyncGet(Head(ids)) = None THEN <<>>
  ELSE <<Head(ids)>> \o Resolved(Tail(ids))

\* The set_schedule calls that the identifiers stand for: one for each
\* occurrence of the identifier of a side of a registered pod, in order.
RECURSIVE Expected(_)
Expected(ids) ==
  IF ids = <<>> THEN <<>>
  ELSE LET id == Head(ids)
           hit == {ps \in (DOMAIN hassData) \X PodSide :
                     DeviceRegistry[id] = Device({<<"Eight Sleep", ps[1] \o "_" \o ps[2]>>})}
       IN  (IF hit = {} THEN <<>>
            ELSE LET ps == CHOOSE x \in hit : TRUE
                 IN  <<[pod |-> ps[1], side |-> ps[2],
                        days_of_week |->
                          IF svc.day_of_week = Omitted THEN DAYS_OF_WEEK
                          ELSE IF svc.day_of_week.kind = "str"
                          THEN <<svc.day_of_week.s>>
                          ELSE svc.day_of_week.l,
                        schedule |-> svc.schedule]>>)
           \o Expected(Tail(ids))

IsPrefix(a, b) == Len(a) <= Len(b) /\ a = SubSeq(b, 1, Len(a))

\* C24: an execute call whose pod identifier is not in the device registry
\* ends in the ValueError, and only such a call does; it has then run the
\* command on no pod. Whatever the call has run the command on is a
\* registered pod whose identifiers equal those of the resolved device.
C24_ExecuteOnlyMatching ==
  svc.op = "execute" =>
    /\ svc.pod_id \notin DOMAIN DeviceRegistry =>
         svc.result = "ValueError" /\ svc.executed = <<>>
    /\ svc.result = "ValueError" => svc.pod_id \notin DOMAIN DeviceRegistry
    /\ \A k \in DOMAIN svc.executed :
         /\ svc.executed[k] \in DOMAIN hassData
         /\ svc.pod_id \in DOMAIN DeviceRegistry
         /\ DeviceRegistry[svc.pod_id].identifiers
              = {<<"Eight Sleep", svc.executed[k]>>}

\* The command has run on pod e1 alone, with two pods registered.
C24_Witness ==
  /\ svc.op = "execute"
  /\ svc.pod_id = "d_e1"
  /\ svc.pc = "done"
  /\ svc.executed = <<"e1">>
  /\ DOMAIN hassData = Entries

\* The command has run on nothing: the identifier is in no registry.
C24_WitnessNotFound ==
  /\ svc.op = "execute"
  /\ svc.pod_id = "d_ghost"
  /\ svc.result = "ValueError"
  /\ DOMAIN hassData = Entries

\* C25, as stated: when a set-schedule call has returned, every side of a
\* registered pod whose identifiers match a listed identifier has had
\* set_schedule invoked exactly once, and no other side has.
C25_Original ==
  (svc.op = "set_schedule" /\ svc.result = "None") =>
    \A e \in DOMAIN hassData, sd0 \in PodSide :
      LET n == Cardinality({k \in DOMAIN svc.calls :
                              svc.calls[k].pod = e /\ svc.calls[k].side = sd0})
          listed == \E k \in DOMAIN svc.side_ids :
                      /\ svc.side_ids[k] \in DOMAIN DeviceRegistry
                      /\ DeviceRegistry[svc.side_ids[k]].identifiers
                           = {<<"Eight Sleep", e \o "_" \o sd0>>}
      IN  n = IF listed THEN 1 ELSE 0

\* C25, amended: the set_schedule calls made so far are the first of the
\* calls that the identifiers before the first unresolved one stand for, one
\* for each occurrence of a side of a registered pod in the order of the
\* list, each with the days as a list and the one converted schedule; and a
\* call that has returned has made them all.
C25_OncePerOccurrence ==
  svc.op = "set_schedule" =>
    /\ IsPrefix(svc.calls, Expected(Resolved(svc.side_ids)))
    /\ svc.result = "None" =>
         /\ Resolved(svc.side_ids) = svc.side_ids
         /\ svc.calls = Expected(svc.side_ids)
    /\ svc.side_ids = (IF svc.side.kind = "str" THEN <<svc.side.s>>
                       ELSE svc.side.l)

\* A call that names the left side of pod e1 twice has returned, with the
\* day given as one string and a schedule in Celsius.
C25_Witness ==
  /\ svc.op = "set_schedule"
  /\ svc.result = "None"
  /\ svc.side = List(<<"d_e1_left", "d_e1_left">>)
  /\ svc.day_of_week = Str("monday")
  /\ svc.unit = "C"
  /\ Len(svc.calls) = 2
  /\ svc.calls[1].days_of_week = <<"monday">>
  /\ svc.calls[1].schedule = [temperature |-> 68]

\* C26, as stated: a set-schedule call that ended in the not-found ValueError
\* has invoked set_schedule on no side.
C26_AtomicNotFound ==
  (svc.op = "set_schedule" /\ svc.result = "ValueError") => svc.calls = <<>>

\* C22, as stated: when the action of the LED brightness number, of the
\* Prime button or of the Reboot button has returned, it has requested a
\* refresh from the coordinator.
C22_RefreshAfterMutation ==
  (inv.pc = "returned"
     /\ inv.op \in {"set_led_brightness", "press_prime", "press_reboot"})
    => inv.refresh

\* C29: the number's action has requested a refresh exactly when its
\* set_led_brightness call has returned, so not while it awaits the call and
\* not when the call has raised; and a refresh request appears only in the
\* step in which that call returns.
C29_RefreshAfterCompletion ==
  [][/\ inv'.op = "set_led_brightness" =>
          (inv'.refresh <=> inv'.pc = "returned" /\ inv'.resp = "ok")
     /\ refreshReq' # refreshReq =>
          /\ inv.op = "set_led_brightness"
          /\ inv.pc = "awaiting"
          /\ inv'.pc = "returned"
          /\ refreshReq']_vars

\* The number's call has raised after the device applied it, and nothing has
\* requested a refresh.
C29_Witness ==
  /\ inv.op = "set_led_brightness"
  /\ inv.pc = "raised"
  /\ ledSet.set
  /\ ~inv.refresh
  /\ ~refreshReq

\* The number's call has returned and the refresh is requested.
C29_WitnessReturned ==
  /\ inv.op = "set_led_brightness"
  /\ inv.pc = "returned"
  /\ inv.refresh
  /\ refreshReq

C27_FailedSetupLeavesNoPair ==
  \A e \in Entries :
    (entries[e].pc = "idle" /\ entries[e].state \in {"setup_retry", "setup_error"})
      => e \notin DOMAIN hassData

\* C28, as stated: once the coordinator has published a snapshot, the Water
\* Level sensor is on when its status.waterLevel is false or "false", and off
\* when it is true or "true".
C28_WaterLevelEitherForm ==
  bs.updated =>
    /\ bs.data.status.waterLevel \in {JBool(FALSE), JStr("false")}
         => bs.state["water_level"] = "on"
    /\ bs.data.status.waterLevel \in {JBool(TRUE), JStr("true")}
         => bs.state["water_level"] = "off"
====
